---- MODULE Spec2Model ----
(***************************************************************************)
(* Model of sremail: validated MIME message construction (message.py,      *)
(* address.py) and SMTP hand-off (smtp.py).                                *)
(*                                                                         *)
(* Python strings are sequences of one-character strings, so that          *)
(* splitting, title-casing and "@" membership are computed.  Python        *)
(* values are records [t |-> type name, v |-> payload sequence].  A Python *)
(* dict is a sequence of <<key, value>> pairs in insertion order.          *)
(*                                                                         *)
(* Three specifications share the variables: Spec (one Message is built,   *)
(* attached to and rendered), SpecSmtp (one call of send or send_all) and  *)
(* SpecEq (several Messages are built and compared).  Inputs are           *)
(* restricted to datetime values for date and to str values for addresses. *)
(***************************************************************************)
EXTENDS Integers, Sequences, FiniteSets, TLC

(* ---------------------------------------------------------------------- *)
(* Bounds                                                                  *)
(* ---------------------------------------------------------------------- *)
MaxAttach == 2
MaxBatch == 3
MaxMsgs == 2

(* ---------------------------------------------------------------------- *)
(* Strings                                                                 *)
(* ---------------------------------------------------------------------- *)
LowerChars == <<"a","b","c","d","e","f","g","h","i","j","k","l","m",
                "n","o","p","q","r","s","t","u","v","w","x","y","z">>
UpperChars == <<"A","B","C","D","E","F","G","H","I","J","K","L","M",
                "N","O","P","Q","R","S","T","U","V","W","X","Y","Z">>

IsLower(c) == \E i \in 1..Len(LowerChars) : LowerChars[i] = c
IsUpper(c) == \E i \in 1..Len(UpperChars) : UpperChars[i] = c
IsCased(c) == IsLower(c) \/ IsUpper(c)
ToUpper(c) ==
    IF IsLower(c)
    THEN UpperChars[CHOOSE i \in 1..Len(LowerChars) : LowerChars[i] = c]
    ELSE c
ToLower(c) ==
    IF IsUpper(c)
    THEN LowerChars[CHOOSE i \in 1..Len(UpperChars) : UpperChars[i] = c]
    ELSE c

\* str.title(): a cased character is upper-cased when it starts a word (it
\* follows an uncased character or nothing) and lower-cased otherwise.
title(s) ==
    [i \in 1..Len(s) |->
        IF IsCased(s[i])
        THEN IF i = 1 \/ ~IsCased(s[i-1]) THEN ToUpper(s[i]) ELSE ToLower(s[i])
        ELSE s[i]]

Contains(s, c) == \E i \in 1..Len(s) : s[i] = c

\* str.split(sep) for a one-character separator: always at least one part.
RECURSIVE split(_, _)
split(s, sep) ==
    IF ~Contains(s, sep)
    THEN <<s>>
    ELSE LET i == CHOOSE j \in 1..Len(s) :
                      s[j] = sep /\ \A h \in 1..(j-1) : s[h] # sep
         IN  <<SubSeq(s, 1, i-1)>> \o split(SubSeq(s, i+1, Len(s)), sep)

\* sep.join(parts)
RECURSIVE join(_, _)
join(sep, parts) ==
    IF Len(parts) = 0 THEN <<>>
    ELSE IF Len(parts) = 1 THEN parts[1]
    ELSE parts[1] \o sep \o join(sep, Tail(parts))

\* str.strip() restricted to spaces
RECURSIVE strip(_)
strip(s) ==
    IF Len(s) > 0 /\ s[1] = " " THEN strip(Tail(s))
    ELSE IF Len(s) > 0 /\ s[Len(s)] = " " THEN strip(SubSeq(s, 1, Len(s)-1))
    ELSE s

TitleEach(parts) == [i \in 1..Len(parts) |-> title(parts[i])]

mime_headerize(s) == join(<<"-">>, TitleEach(split(s, "_")))

(* ---------------------------------------------------------------------- *)
(* Python values and dicts                                                 *)
(* ---------------------------------------------------------------------- *)
PyStr(chars) == [t |-> "str", v |-> chars]
PyList(items) == [t |-> "list", v |-> items]
PyInt(n) == [t |-> "int", v |-> <<n>>]
PyDateTime(n) == [t |-> "datetime", v |-> <<n>>]

Keys(d) == {d[i][1] : i \in 1..Len(d)}
Has(d, k) == k \in Keys(d)
Get(d, k) == d[CHOOSE i \in 1..Len(d) : d[i][1] = k][2]
\* d[k] = v: an existing key keeps its position, a new key is appended
Put(d, k, v) ==
    IF Has(d, k)
    THEN [i \in 1..Len(d) |-> IF d[i][1] = k THEN <<k, v>> ELSE d[i]]
    ELSE Append(d, <<k, v>>)
\* dict == dict: same keys, same value per key, whatever the insertion order
DictEq(a, b) ==
    /\ Keys(a) = Keys(b)
    /\ \A k \in Keys(a) : Get(a, k) = Get(b, k)
\* bool(value) for the value kinds of the model
Truthy(val) == IF val.t \in {"str", "list"} THEN Len(val.v) > 0
               ELSE IF val.t = "int" THEN val.v[1] # 0
               ELSE TRUE

(* ---------------------------------------------------------------------- *)
(* address.py                                                              *)
(* ---------------------------------------------------------------------- *)
\* position of the first c in s
IndexOf(s, c) == CHOOSE j \in 1..Len(s) : s[j] = c /\ \A h \in 1..(j-1) : s[h] # c

\* the text up to the first c of s, or all of s without one
UpTo(s, c) == IF Contains(s, c) THEN SubSeq(s, 1, IndexOf(s, c) - 1) ELSE s

\* the text after position i of s
After(s, i) == SubSeq(s, i + 1, Len(s))

\* email.utils.parseaddr on the shapes "name <email>", "<email>" and a bare
\* token without spaces: <<name, email>>.
parseaddr(s) ==
    IF Contains(s, "<")
    THEN <<strip(UpTo(s, "<")), UpTo(After(s, IndexOf(s, "<")), ">")>>
    ELSE << <<>>, s >>

\* email.utils.formataddr for names without special characters
formataddr(pair) ==
    IF Len(pair[1]) > 0 THEN pair[1] \o <<" ", "<">> \o pair[2] \o <<">">>
    ELSE pair[2]

\* Address.__init__ without the second check (address.py:21-22)
AddressChecks_NoAtCheck(p) ==
    IF Len(p[1]) = 0 /\ Len(p[2]) = 0
    THEN [ok |-> FALSE, name |-> p[1], email |-> p[2]]
    ELSE [ok |-> TRUE, name |-> p[1], email |-> p[2]]

\* Address.__init__ after parseaddr gave the pair p: [ok, name, email]; ok =
\* FALSE stands for ValueError
AddressChecks(p) ==
    IF Len(p[1]) = 0 /\ Len(p[2]) = 0
    THEN [ok |-> FALSE, name |-> p[1], email |-> p[2]]
    ELSE IF ~Contains(p[2], "@")
    THEN [ok |-> FALSE, name |-> p[1], email |-> p[2]]
    ELSE [ok |-> TRUE, name |-> p[1], email |-> p[2]]

\* Address.__init__
Address(addr_str) == AddressChecks(parseaddr(addr_str))

PyAddress(a) == [t |-> "Address", v |-> <<a.name, a.email>>]

\* Address.__str__
Address__str__(val) == formataddr(val.v)

\* built-in str() for the value kinds an address field is given
Digits == <<"0","1","2","3","4","5","6","7","8","9">>
str(val) ==
    IF val.t = "str" THEN val.v
    ELSE IF val.t = "Address" THEN Address__str__(val)
    ELSE IF val.t = "int" THEN <<Digits[val.v[1] + 1]>>
    ELSE <<"?">>

\* the outcome of "try: return Address(value) except ValueError"
AddressOrInvalid(a, value) ==
    IF a.ok THEN [ok |-> TRUE, value |-> PyAddress(a)]
    ELSE [ok |-> FALSE, value |-> value]

\* AddressField._validated: [ok, value]; ok = FALSE is "invalid_address"
AddressField_validated(value) ==
    IF value.t = "Address" THEN [ok |-> TRUE, value |-> value]
    ELSE IF value.t # "str" THEN [ok |-> FALSE, value |-> value]
    ELSE AddressOrInvalid(Address(value.v), value)

\* AddressField._serialize
AddressField_serialize(value) == PyStr(str(value))

\* AddressField._deserialize
AddressField_deserialize(value) == AddressField_validated(value)

(* ---------------------------------------------------------------------- *)
(* message.py: MessageHeadersSchema                                        *)
(* ---------------------------------------------------------------------- *)
K_date == <<"d","a","t","e">>
K_sender == <<"s","e","n","d","e","r">>
K_reply_to == <<"r","e","p","l","y","_","t","o">>
K_to == <<"t","o">>
K_cc == <<"c","c">>
K_bcc == <<"b","c","c">>
K_from == <<"f","r","o","m">>
K_from_addresses == <<"f","r","o","m","_","a","d","d","r","e","s","s","e","s">>
K_schema == <<"_","s","c","h","e","m","a">>

\* The declared fields in declaration order, Meta.include last.  attribute
\* <<>> stands for None.
SchemaFields ==
    << [name |-> K_date,     attribute |-> <<>>, type |-> "DateTime", required |-> TRUE],
       [name |-> K_sender,   attribute |-> <<>>, type |-> "Address",  required |-> FALSE],
       [name |-> K_reply_to, attribute |-> <<>>, type |-> "List",     required |-> FALSE],
       [name |-> K_to,       attribute |-> <<>>, type |-> "List",     required |-> FALSE],
       [name |-> K_cc,       attribute |-> <<>>, type |-> "List",     required |-> FALSE],
       [name |-> K_bcc,      attribute |-> <<>>, type |-> "List",     required |-> FALSE],
       [name |-> K_from,     attribute |-> K_from_addresses,
                                                 type |-> "List",     required |-> TRUE] >>

\* field.attribute or field.name
AttrOf(f) == IF f.attribute = <<>> THEN f.name ELSE f.attribute

\* on_bind_field: the data key of a field is its MIME header name
on_bind_field(f) == mime_headerize(f.name)

MsgMissing == "Missing data for required field."
MsgAddress == "Not a valid address."
MsgDateTime == "Not a valid datetime."
MsgList == "Not a valid list."
MsgMandatory == "One of 'to', or 'bcc' must be supplied"

\* fields.DateTime(format="rfc"): the RFC 822 text of an instant, and back
rfcformat(n) == <<"r","f","c","8","2","2",":">> \o <<Digits[n + 1]>>
Instants == 0..9
IsRfc(chars) == \E n \in Instants : rfcformat(n) = chars
from_rfc(chars) == CHOOSE n \in Instants : rfcformat(n) = chars

\* validate_mandatory_fields testing presence instead of truth: an empty
\* list counts as supplied
validate_mandatory_fields_Presence(data) ==
    /\ ~Has(data, K_to)
    /\ ~Has(data, K_bcc)

\* validate_mandatory_fields: TRUE when it raises
validate_mandatory_fields(data) ==
    /\ ~(Has(data, K_to) /\ Truthy(Get(data, K_to)))
    /\ ~(Has(data, K_bcc) /\ Truthy(Get(data, K_bcc)))

\* cache_unknown_fields (pre_dump): the new cached_unknown_fields
cache_unknown_fields(data) ==
    LET field_names == {AttrOf(SchemaFields[i]) : i \in 1..Len(SchemaFields)}
    IN  SelectSeq(data, LAMBDA kv : kv[1] \notin field_names)

\* dump_unknown_fields (post_dump)
RECURSIVE dump_unknown_fields(_, _)
dump_unknown_fields(cached, data) ==
    IF Len(cached) = 0 THEN data
    ELSE dump_unknown_fields(Tail(cached),
             Put(data, mime_headerize(cached[1][1]), cached[1][2]))

\* Field serialization of one value
SerializeField(f, value) ==
    IF f.type = "DateTime" THEN PyStr(rfcformat(value.v[1]))
    ELSE IF f.type = "Address" THEN AddressField_serialize(value)
    ELSE PyList([i \in 1..Len(value.v) |-> AddressField_serialize(value.v[i])])

\* Schema._serialize: every declared field whose attribute the object has
RECURSIVE SerializeFrom(_, _)
SerializeFrom(i, obj) ==
    IF i > Len(SchemaFields) THEN <<>>
    ELSE LET f == SchemaFields[i]
         IN  (IF Has(obj, AttrOf(f))
              THEN << <<on_bind_field(f), SerializeField(f, Get(obj, AttrOf(f)))>> >>
              ELSE <<>>) \o SerializeFrom(i + 1, obj)

\* Schema.dump on the shared schema instance: pre_dump, serialization,
\* post_dump.  Returns the dumped mapping and the cache it leaves behind.
DumpWith(cached, obj) ==
    [data |-> dump_unknown_fields(cached, SerializeFrom(1, obj)),
     cached_unknown_fields |-> cached]

dump(obj) == DumpWith(cache_unknown_fields(obj), obj)

\* Deserialization of the value found for field f: the set of <<data key,
\* index, message>> errors (index 0 for the field itself)
ValueErrors(f, key, value) ==
    IF f.type = "DateTime"
    THEN IF value.t = "str" /\ IsRfc(value.v) THEN {}
         ELSE {<<key, 0, MsgDateTime>>}
    ELSE IF f.type = "Address"
    THEN IF AddressField_deserialize(value).ok THEN {}
         ELSE {<<key, 0, MsgAddress>>}
    ELSE IF value.t # "list" THEN {<<key, 0, MsgList>>}
    ELSE {<<key, i, MsgAddress>> : i \in
             {j \in 1..Len(value.v) : ~AddressField_deserialize(value.v[j]).ok}}

\* the errors of field f, whose data key is key, in the mapping data
FieldErrorsAt(f, key, data) ==
    IF ~Has(data, key)
    THEN IF f.required THEN {<<key, 0, MsgMissing>>} ELSE {}
    ELSE ValueErrors(f, key, Get(data, key))

FieldErrors(f, data) == FieldErrorsAt(f, on_bind_field(f), data)

DeserializeField(f, value) ==
    IF f.type = "DateTime" THEN PyDateTime(from_rfc(value.v))
    ELSE IF f.type = "Address" THEN AddressField_deserialize(value).value
    ELSE PyList([i \in 1..Len(value.v) |-> AddressField_deserialize(value.v[i]).value])

\* the entry field f contributes to the deserialized mapping
DeserializeAt(f, key, data) ==
    IF Has(data, key) /\ FieldErrorsAt(f, key, data) = {}
    THEN << <<AttrOf(f), DeserializeField(f, Get(data, key))>> >>
    ELSE <<>>

DataKeys == {on_bind_field(SchemaFields[j]) : j \in 1..Len(SchemaFields)}

\* Schema._deserialize: valid fields under their attribute names, then
\* (unknown = INCLUDE) every key that is no field's data key
RECURSIVE DeserializeFrom(_, _)
DeserializeFrom(i, data) ==
    IF i > Len(SchemaFields)
    THEN SelectSeq(data, LAMBDA kv : kv[1] \notin DataKeys)
    ELSE DeserializeAt(SchemaFields[i], on_bind_field(SchemaFields[i]), data)
             \o DeserializeFrom(i + 1, data)

\* validates_schema(skip_on_field_errors=True), the decorator's default: the
\* schema-level validator runs only when no field failed
skip_on_field_errors == TRUE

\* the schema-level validators, given the field errors and the
\* deserialized mapping
SchemaErrors(field_errors, result) ==
    IF field_errors # {} /\ skip_on_field_errors THEN {}
    ELSE IF validate_mandatory_fields(result)
         THEN {<<K_schema, 0, MsgMandatory>>}
         ELSE {}

LoadResult(field_errors, result) ==
    [errors |-> field_errors \cup SchemaErrors(field_errors, result),
     data |-> result]

\* Schema._do_load: [errors, data]
do_load(data) ==
    LoadResult(UNION {FieldErrors(SchemaFields[i], data) : i \in 1..Len(SchemaFields)},
               DeserializeFrom(1, data))

\* Schema.validate: the errors only
validate(data) == do_load(data).errors

\* Schema.load: the deserialized mapping, or ValidationError with the errors
LoadOutcome(r) == [ok |-> r.errors = {}, errors |-> r.errors, data |-> r.data]

load(data) == LoadOutcome(do_load(data))

(* ---------------------------------------------------------------------- *)
(* message.py: Message                                                     *)
(* ---------------------------------------------------------------------- *)
None == [t |-> "NoneType", v |-> <<>>]
NoMessage == [headers |-> <<>>, attachments |-> <<>>]

\* Message.__init__ once the first dump and its validation are known: raise
\* ValueError, or store a second dump.  cached_unknown_fields is what the
\* shared schema's cache holds afterwards.
InitOutcome(headers, first, validation_result) ==
    IF Cardinality(validation_result) > 0
    THEN [exc |-> "ValueError", errors |-> validation_result,
          self |-> NoMessage,
          cached_unknown_fields |-> first.cached_unknown_fields]
    ELSE [exc |-> "None", errors |-> {},
          self |-> [headers |-> dump(headers).data, attachments |-> <<>>],
          cached_unknown_fields |-> dump(headers).cached_unknown_fields]

\* Message.__init__(**headers): validate the dump of the keyword mapping,
\* then store a second dump of it.
Message__init__(headers) ==
    InitOutcome(headers, dump(headers), validate(dump(headers).data))

\* Message.with_headers once Schema.load has run
WithHeadersOutcome(r) ==
    IF ~r.ok
    THEN [exc |-> "ValueError", errors |-> r.errors, self |-> NoMessage,
          returns |-> "raise"]
    ELSE [exc |-> "None", errors |-> {},
          self |-> [headers |-> r.data, attachments |-> <<>>],
          returns |-> "None"]

\* Message.with_headers(headers): builds self from Schema.load; the method
\* has no return statement, so the caller receives None.
with_headers(headers) == WithHeadersOutcome(load(headers))

\* MIME part objects: id is the object's identity
MIMEText(id, text, subtype) ==
    [id |-> id, maintype |-> "text", subtype |-> subtype,
     payload |-> text, disposition |-> <<>>]
MIMEApplication(id, data, subtype, filename) ==
    [id |-> id, maintype |-> "application", subtype |-> subtype,
     payload |-> <<"b","a","s","e","6","4",":">> \o data, disposition |-> filename]

\* Message.attach_text
attach_text(self, id, text, subtype) ==
    [self EXCEPT !.attachments = Append(@, MIMEText(id, text, subtype))]

\* os.path.basename
basename(file_path) ==
    LET parts == split(file_path, "/") IN parts[Len(parts)]

\* Message.attach with the file's content already read
attach(self, id, file_path, content) ==
    LET parts == split(file_path, ".")
        ext == parts[Len(parts)]
    IN  [self EXCEPT !.attachments =
             Append(@, MIMEApplication(id, content, ext, basename(file_path)))]

H_content_type == <<"C","o","n","t","e","n","t","-","T","y","p","e">>
H_mime_version == <<"M","I","M","E","-","V","e","r","s","i","o","n">>
V_multipart_mixed == <<"m","u","l","t","i","p","a","r","t","/","m","i","x","e","d">>
V_1_0 == <<"1",".","0">>

\* ", ".join(val) raises TypeError unless every item is a str
Joinable(val) == \A i \in 1..Len(val.v) : val.v[i].t = "str"
JoinList(val) == PyStr(join(<<",", " ">>, [i \in 1..Len(val.v) |-> val.v[i].v]))

\* as_mime storing each joined list back into self.headers
as_mime_InPlace(self) ==
    LET hs == self.headers
        bad == \E i \in 1..Len(hs) : hs[i][2].t = "list" /\ ~Joinable(hs[i][2])
        joined == [i \in 1..Len(hs) |->
                      <<hs[i][1],
                        IF hs[i][2].t = "list" THEN JoinList(hs[i][2])
                        ELSE hs[i][2]>>]
    IN  IF bad
        THEN [exc |-> "TypeError", self |-> self,
              mime |-> [headers |-> <<>>, payload |-> <<>>]]
        ELSE [exc |-> "None", self |-> [self EXCEPT !.headers = joined],
              mime |-> [headers |->
                            << <<H_content_type, PyStr(V_multipart_mixed)>>,
                               <<H_mime_version, PyStr(V_1_0)>> >> \o joined,
                        payload |-> self.attachments]]

\* Message.as_mime: the Message afterwards (self), and either the standard
\* library message built (headers in insertion order, then the attached
\* parts) or the exception raised
as_mime(self) ==
    LET hs == self.headers
        bad == \E i \in 1..Len(hs) : hs[i][2].t = "list" /\ ~Joinable(hs[i][2])
    IN  IF bad
        THEN [exc |-> "TypeError", self |-> self,
              mime |-> [headers |-> <<>>, payload |-> <<>>]]
        ELSE [exc |-> "None", self |-> self,
              mime |-> [headers |->
                            << <<H_content_type, PyStr(V_multipart_mixed)>>,
                               <<H_mime_version, PyStr(V_1_0)>> >> \o
                            [i \in 1..Len(hs) |->
                                <<hs[i][1],
                                  IF hs[i][2].t = "list" THEN JoinList(hs[i][2])
                                  ELSE hs[i][2]>>],
                        payload |-> self.attachments]]

\* sorted(list of MIME parts): the parts define no ordering, so any
\* comparison raises TypeError; a list of fewer than two items is returned
\* without comparing
sorted(parts) ==
    IF Len(parts) >= 2 THEN [exc |-> "TypeError", value |-> <<>>]
    ELSE [exc |-> "None", value |-> parts]

\* list == list over MIME parts, which compare by identity
PartsEq(a, b) ==
    /\ Len(a) = Len(b)
    /\ \A i \in 1..Len(a) : a[i].id = b[i].id

\* Message.__eq__(self, other): other is [class, obj]; isinstance(self,
\* other.__class__) holds for Message and for its base class object
Message__eq__(self, other) ==
    IF other.class \in {"Message", "object"}
    THEN IF other.class # "Message"
         THEN [exc |-> "AttributeError", value |-> FALSE]
         ELSE IF ~DictEq(self.headers, other.obj.headers)
         THEN [exc |-> "None", value |-> FALSE]
         ELSE IF sorted(self.attachments).exc # "None"
         THEN [exc |-> "TypeError", value |-> FALSE]
         ELSE IF sorted(other.obj.attachments).exc # "None"
         THEN [exc |-> "TypeError", value |-> FALSE]
         ELSE [exc |-> "None",
               value |-> PartsEq(sorted(self.attachments).value,
                                 sorted(other.obj.attachments).value)]
    ELSE [exc |-> "None", value |-> FALSE]

(* ---------------------------------------------------------------------- *)
(* State                                                                   *)
(* ---------------------------------------------------------------------- *)
VARIABLES
    heap,                   \* the Message objects the caller holds
    kwargs,                 \* the keyword mapping each of them was built from
    cached_unknown_fields,  \* MESSAGE_HEADERS_SCHEMA.cached_unknown_fields
    ret,                    \* the last call: operation, argument, outcome
    pc,                     \* smtp.py: position inside send / send_all
    fn,                     \* smtp.py: "send" or "send_all"
    messages,               \* smtp.py: the messages argument
    idx,                    \* smtp.py: the loop position (next message)
    opened,                 \* number of SMTP sessions opened by the call
    closed,                 \* number of sessions closed (the with-exit)
    attempts,               \* the send_message calls: [mime, ok], in order
    exc,                    \* smtp.py: the exception in flight / propagated
    addrs,                  \* the Address objects the caller holds
    threads                 \* concurrent Message(**headers) calls in progress

vars == <<heap, kwargs, cached_unknown_fields, ret,
          pc, fn, messages, idx, opened, closed, attempts, exc, addrs, threads>>
msgVars == <<heap, kwargs, cached_unknown_fields, ret>>
smtpVars == <<pc, fn, messages, idx, opened, closed, attempts, exc>>
otherVars == <<addrs, threads>>

Ret(op, arg, e, value, errors) ==
    [op |-> op, arg |-> arg, exc |-> e, value |-> value, errors |-> errors]

(* ---------------------------------------------------------------------- *)
(* Inputs                                                                  *)
(* ---------------------------------------------------------------------- *)
A_good == PyStr(<<"a","@","b">>)
A_named == PyStr(<<"N"," ","<","c","@","d",">">>)
A_bad == PyStr(<<"b","a","d">>)
K_body == <<"b","o","d","y">>
K_x_ids == <<"x","_","i","d","s">>
K_TO == <<"T","O">>
T_hello == <<"H","i">>
T_plain == <<"p","l","a","i","n">>
T_html == <<"h","t","m","l">>
P_file == <<"d","/","a",".","t","x","t">>
P_missing == <<"n","o">>

\* an optional keyword: absent, or present with one of the values
Opt(k, values) == {<<>>} \cup {<< <<k, val>> >> : val \in values}

\* keyword mappings given to Message(**headers)
HeaderInputs ==
    {to \o bcc \o date \o frm \o sender \o unknown :
        to \in Opt(K_to, {PyList(<<>>), PyList(<<A_good>>), PyList(<<A_bad>>),
                          PyList(<<A_good, A_bad>>)}),
        bcc \in Opt(K_bcc, {PyList(<<>>), PyList(<<A_named>>)}),
        date \in Opt(K_date, {PyDateTime(1)}),
        frm \in Opt(K_from_addresses, {PyList(<<A_good>>), PyList(<<A_bad>>)}),
        sender \in Opt(K_sender, {A_bad}),
        unknown \in Opt(K_body, {PyStr(T_hello)})
                    \cup Opt(K_x_ids, {PyList(<<PyInt(1)>>)})
                    \cup Opt(K_TO, {PyList(<<>>)})}

\* the filesystem: readable files and their content
Files == {P_file}
FileContent(file_path) == <<"T">>

\* raw mappings given to Message.with_headers: what the schema dumps for
\* the keyword mappings (canonical keys, textual values)
RawHeaderInputs == {dump(h).data : h \in HeaderInputs}

\* The constructor's outcome for each input
Constructed == [h \in HeaderInputs |-> Message__init__(h)]

\* identity of a newly created MIME part: one no live part has
LiveIds == UNION {{heap[m].attachments[a].id : a \in 1..Len(heap[m].attachments)} :
                      m \in 1..Len(heap)}
NewId == CHOOSE n \in 1..(Cardinality(LiveIds) + 1) : n \notin LiveIds

(* ---------------------------------------------------------------------- *)
(* Message lifecycle: one Message is built, then attached to and rendered  *)
(* ---------------------------------------------------------------------- *)
SmtpIdle ==
    /\ pc = "idle" /\ fn = "none" /\ messages = <<>> /\ idx = 0
    /\ opened = 0 /\ closed = 0 /\ attempts = <<>> /\ exc = "None"

\* no Address is held and no concurrent construction is under way
OthersIdle == addrs = <<>> /\ threads = <<>>

Init ==
    /\ heap = <<>>
    /\ kwargs = <<>>
    /\ cached_unknown_fields = <<>>
    /\ ret = Ret("none", <<>>, "None", None, {})
    /\ SmtpIdle
    /\ OthersIdle

\* m = Message(**headers), the first call of the run
Construct ==
    /\ ret.op = "none"
    /\ heap = <<>>
    /\ \E h \in HeaderInputs : \E r \in {Constructed[h]} :
         /\ heap' = IF r.exc = "None" THEN <<r.self>> ELSE <<>>
         /\ kwargs' = IF r.exc = "None" THEN <<h>> ELSE <<>>
         /\ cached_unknown_fields' = r.cached_unknown_fields
         /\ ret' = Ret("Message", h, r.exc, None, r.errors)
    /\ UNCHANGED smtpVars
    /\ UNCHANGED otherVars

\* m.attach_text(text, subtype)
AttachText ==
    /\ \E m \in 1..Len(heap), subtype \in {T_plain, T_html} :
         /\ Len(heap[m].attachments) < MaxAttach
         /\ heap' = [heap EXCEPT ![m] = attach_text(@, NewId, T_hello, subtype)]
         /\ ret' = Ret("attach_text", subtype, "None", None, {})
    /\ UNCHANGED <<kwargs, cached_unknown_fields>>
    /\ UNCHANGED smtpVars
    /\ UNCHANGED otherVars

\* m.attach(file_path): open() raises for a file that cannot be read
Attach ==
    /\ Len(heap) = 1
    /\ Len(heap[1].attachments) < MaxAttach
    /\ \E file_path \in {P_file, P_missing} :
         IF file_path \in Files
         THEN /\ heap' = <<attach(heap[1], NewId, file_path, FileContent(file_path))>>
              /\ ret' = Ret("attach", file_path, "None", None, {})
         ELSE /\ heap' = heap
              /\ ret' = Ret("attach", file_path, "IOError", None, {})
    /\ UNCHANGED <<kwargs, cached_unknown_fields>>
    /\ UNCHANGED smtpVars
    /\ UNCHANGED otherVars

\* m.as_mime()
AsMime ==
    /\ Len(heap) = 1
    /\ LET r == as_mime(heap[1])
       IN  /\ heap' = <<r.self>>
           /\ ret' = Ret("as_mime", <<>>, r.exc, r.mime, {})
    /\ UNCHANGED <<kwargs, cached_unknown_fields>>
    /\ UNCHANGED smtpVars
    /\ UNCHANGED otherVars

\* Message.with_headers(headers); nothing is bound when it raises, and None
\* is bound when it returns
WithHeaders ==
    /\ ret.op = "none"
    /\ heap = <<>>
    /\ \E h \in RawHeaderInputs : \E r \in {with_headers(h)} :
         ret' = Ret("with_headers", h, r.exc, None, r.errors)
    /\ UNCHANGED <<heap, kwargs, cached_unknown_fields>>
    /\ UNCHANGED smtpVars
    /\ UNCHANGED otherVars

Next == Construct \/ WithHeaders \/ AttachText \/ Attach \/ AsMime

Spec == Init /\ [][Next]_vars

(* ---------------------------------------------------------------------- *)
(* Properties of Message construction                                      *)
(* ---------------------------------------------------------------------- *)
\* the keyword mapping gives no recipient: to and bcc are absent or empty
LacksRecipients(h) ==
    /\ ~(Has(h, K_to) /\ Len(Get(h, K_to).v) > 0)
    /\ ~(Has(h, K_bcc) /\ Len(Get(h, K_bcc).v) > 0)

MandatoryError == <<K_schema, 0, MsgMandatory>>

\* C4: whenever Message(**headers) is given a mapping without a non-empty
\* to or bcc, it raises ValueError and the error holds the cross-field
\* message "One of 'to', or 'bcc' must be supplied", whatever the other
\* fields are.
C4_CrossFieldErrorReported ==
    (ret.op = "Message" /\ LacksRecipients(ret.arg))
        => (ret.exc = "ValueError" /\ MandatoryError \in ret.errors)

\* every rule the keyword mapping h breaks, as the error entry it calls for
InvalidItems(h, k) ==
    IF ~Has(h, k) THEN {}
    ELSE {i \in 1..Len(Get(h, k).v) : ~Address(str(Get(h, k).v[i])).ok}
Violations(h) ==
    (IF Has(h, K_date) THEN {} ELSE {<<mime_headerize(K_date), 0, MsgMissing>>})
    \cup (IF Has(h, K_from_addresses) THEN {}
          ELSE {<<mime_headerize(K_from), 0, MsgMissing>>})
    \cup {<<mime_headerize(K_from), i, MsgAddress>> : i \in InvalidItems(h, K_from_addresses)}
    \cup {<<mime_headerize(K_to), i, MsgAddress>> : i \in InvalidItems(h, K_to)}
    \cup {<<mime_headerize(K_bcc), i, MsgAddress>> : i \in InvalidItems(h, K_bcc)}
    \cup (IF Has(h, K_sender) /\ ~Address(str(Get(h, K_sender))).ok
          THEN {<<mime_headerize(K_sender), 0, MsgAddress>>} ELSE {})
    \cup (IF LacksRecipients(h) THEN {MandatoryError} ELSE {})

\* C5: the error Message(**headers) raises carries an entry for every
\* violation present in the mapping (invalid addresses, missing date or
\* from, the to/bcc rule), and construction succeeds only with none.
C5_AllViolationsReported ==
    ret.op = "Message"
        => /\ Violations(ret.arg) \subseteq ret.errors
           /\ (ret.exc = "None" => Violations(ret.arg) = {})

H_Date == <<"D","a","t","e">>
H_From == <<"F","r","o","m">>
H_To == <<"T","o">>
H_Bcc == <<"B","c","c">>

HeadersInvariant(h) ==
    /\ Has(h, H_Date)
    /\ Has(h, H_From)
    /\ \/ Has(h, H_To) /\ Truthy(Get(h, H_To))
       \/ Has(h, H_Bcc) /\ Truthy(Get(h, H_Bcc))

C6_State ==
    /\ \A m \in 1..Len(heap) : HeadersInvariant(heap[m].headers)
    /\ (ret.op = "Message" /\ ret.exc = "None")
           => (Len(heap) = 1 /\ heap[1].attachments = <<>>)
C6_Step ==
    (Len(heap) = 1 /\ Len(heap') = 1) => heap'[1].headers = heap[1].headers

RawValid(h) ==
    /\ Keys(h) \subseteq {on_bind_field(SchemaFields[i]) : i \in 1..Len(SchemaFields)}
    /\ HeadersInvariant(h)
    /\ validate(h) = {}

\* C7: Message.with_headers(h), for a valid mapping h with canonical keys,
\* returns a Message whose headers equal h and whose attachment list is
\* empty.
C7_WithHeadersReturnsMessage ==
    (ret.op = "with_headers" /\ RawValid(ret.arg))
        => /\ ret.exc = "None"
           /\ ret.value.t = "Message"
           /\ DictEq(ret.value.v[1].headers, ret.arg)
           /\ ret.value.v[1].attachments = <<>>

\* C8: as_mime() attaches, in order, the body part (when the Message was
\* given a body) and then every attachment in the order it was attached.
C8_BodyThenAttachments ==
    (ret.op = "as_mime" /\ ret.exc = "None")
        => LET parts == ret.value.payload
           IN  IF Has(kwargs[1], K_body)
               THEN /\ Len(parts) = Len(heap[1].attachments) + 1
                    /\ parts[1].maintype = "text"
                    /\ parts[1].payload = Get(kwargs[1], K_body).v
                    /\ Tail(parts) = heap[1].attachments
               ELSE parts = heap[1].attachments

C9_Step ==
    /\ ret'.op = "as_mime" => heap' = heap
    /\ (ret.op = "as_mime" /\ ret'.op = "as_mime") => ret'.value = ret.value

KW_plain == << <<K_to, PyList(<<A_good>>)>>, <<K_date, PyDateTime(1)>>,
               <<K_from_addresses, PyList(<<A_good>>)>> >>
KW_bcc == << <<K_bcc, PyList(<<A_named>>)>>, <<K_date, PyDateTime(2)>>,
             <<K_from_addresses, PyList(<<A_good>>)>> >>
KW_ids == KW_plain \o << <<K_x_ids, PyList(<<PyInt(1)>>)>> >>

\* Messages handed to smtp.py: two that render, the second with an
\* attachment, and one whose list-valued header makes as_mime raise
SampleMessages ==
    { Message__init__(KW_plain).self,
      attach_text(Message__init__(KW_bcc).self, 1, T_hello, T_plain),
      Message__init__(KW_ids).self }

RECURSIVE SeqsUpTo(_, _)
SeqsUpTo(S, n) ==
    IF n = 0 THEN {<<>>}
    ELSE LET shorter == SeqsUpTo(S, n - 1)
         IN  shorter \cup {Append(q, x) : q \in {r \in shorter : Len(r) = n - 1}, x \in S}

Batches == SeqsUpTo(SampleMessages, MaxBatch)

\* a call of send(message, smtp_url) or send_all(messages, smtp_url) starts
InitSmtp ==
    /\ heap = <<>>
    /\ kwargs = <<>>
    /\ cached_unknown_fields = <<>>
    /\ ret = Ret("none", <<>>, "None", None, {})
    /\ pc = "call"
    /\ \/ fn = "send" /\ \E m \in SampleMessages : messages = <<m>>
       \/ fn = "send_all" /\ messages \in Batches
    /\ idx = 0
    /\ opened = 0
    /\ closed = 0
    /\ attempts = <<>>
    /\ exc = "None"
    /\ OthersIdle

\* with smtplib.SMTP(smtp_url) as smtp: the constructor connects, or raises
\* before any session exists
Connect ==
    /\ pc = "call"
    /\ \/ /\ opened' = opened + 1
          /\ pc' = IF fn = "send" THEN "send" ELSE "loop"
          /\ idx' = 1
          /\ exc' = exc
       \/ /\ exc' = "OSError"
          /\ pc' = "raised"
          /\ UNCHANGED <<opened, idx>>
    /\ UNCHANGED <<fn, messages, closed, attempts>>
    /\ UNCHANGED msgVars
    /\ UNCHANGED otherVars

\* send: smtp.send_message(message.as_mime())
Send ==
    /\ pc = "send"
    /\ LET r == as_mime(messages[1])
       IN  IF r.exc # "None"
           THEN /\ exc' = r.exc
                /\ attempts' = attempts
           ELSE \E ok \in BOOLEAN :
                  /\ attempts' = Append(attempts, [mime |-> r.mime, ok |-> ok])
                  /\ exc' = IF ok THEN exc ELSE "SMTPException"
    /\ pc' = "exit"
    /\ UNCHANGED <<fn, messages, idx, opened, closed>>
    /\ UNCHANGED msgVars
    /\ UNCHANGED otherVars

\* send_all walking the list from its end
SendAllNext_Reversed ==
    /\ pc = "loop"
    /\ idx <= Len(messages)
    /\ LET r == as_mime(messages[Len(messages) - idx + 1])
       IN  IF r.exc # "None"
           THEN /\ exc' = r.exc
                /\ pc' = "exit"
                /\ UNCHANGED <<attempts, idx>>
           ELSE \E ok \in BOOLEAN :
                  /\ attempts' = Append(attempts, [mime |-> r.mime, ok |-> ok])
                  /\ IF ok
                     THEN /\ idx' = idx + 1
                          /\ UNCHANGED <<pc, exc>>
                     ELSE /\ exc' = "SMTPException"
                          /\ pc' = "exit"
                          /\ idx' = idx
    /\ UNCHANGED <<fn, messages, opened, closed>>
    /\ UNCHANGED msgVars
    /\ UNCHANGED otherVars

\* send_all catching a failed send_message and going on with the next message
SendAllNext_Swallow ==
    /\ pc = "loop"
    /\ idx <= Len(messages)
    /\ LET r == as_mime(messages[idx])
       IN  IF r.exc # "None"
           THEN /\ exc' = r.exc
                /\ pc' = "exit"
                /\ UNCHANGED <<attempts, idx>>
           ELSE \E ok \in BOOLEAN :
                  /\ attempts' = Append(attempts, [mime |-> r.mime, ok |-> ok])
                  /\ idx' = idx + 1
                  /\ UNCHANGED <<pc, exc>>
    /\ UNCHANGED <<fn, messages, opened, closed>>
    /\ UNCHANGED msgVars
    /\ UNCHANGED otherVars

\* send_all: one iteration of "for message in messages:
\* smtp.send_message(message.as_mime())"
SendAllNext ==
    /\ pc = "loop"
    /\ idx <= Len(messages)
    /\ LET r == as_mime(messages[idx])
       IN  IF r.exc # "None"
           THEN /\ exc' = r.exc
                /\ pc' = "exit"
                /\ UNCHANGED <<attempts, idx>>
           ELSE \E ok \in BOOLEAN :
                  /\ attempts' = Append(attempts, [mime |-> r.mime, ok |-> ok])
                  /\ IF ok
                     THEN /\ idx' = idx + 1
                          /\ UNCHANGED <<pc, exc>>
                     ELSE /\ exc' = "SMTPException"
                          /\ pc' = "exit"
                          /\ idx' = idx
    /\ UNCHANGED <<fn, messages, opened, closed>>
    /\ UNCHANGED msgVars
    /\ UNCHANGED otherVars

\* send_all: the for loop is exhausted
SendAllEnd ==
    /\ pc = "loop"
    /\ idx > Len(messages)
    /\ pc' = "exit"
    /\ UNCHANGED <<fn, messages, idx, opened, closed, attempts, exc>>
    /\ UNCHANGED msgVars
    /\ UNCHANGED otherVars

\* the session closed by a call after the sends instead of a with block: an
\* exception in flight skips it
Exit_NoWith ==
    /\ pc = "exit"
    /\ closed' = IF exc = "None" THEN closed + 1 ELSE closed
    /\ pc' = IF exc = "None" THEN "done" ELSE "raised"
    /\ UNCHANGED <<fn, messages, idx, opened, attempts, exc>>
    /\ UNCHANGED msgVars
    /\ UNCHANGED otherVars

\* leaving the with block, normally or with an exception in flight: the
\* session is closed, and the exception (if any) goes on to the caller
Exit ==
    /\ pc = "exit"
    /\ closed' = closed + 1
    /\ pc' = IF exc = "None" THEN "done" ELSE "raised"
    /\ UNCHANGED <<fn, messages, idx, opened, attempts, exc>>
    /\ UNCHANGED msgVars
    /\ UNCHANGED otherVars

NextSmtp == Connect \/ Send \/ SendAllNext \/ SendAllEnd \/ Exit

SpecSmtp == InitSmtp /\ [][NextSmtp]_vars

\* the attempts made so far carry, in order, the renders of the first
\* messages of the list
InInputOrder ==
    /\ Len(attempts) <= Len(messages)
    /\ \A i \in 1..Len(attempts) : attempts[i].mime = as_mime(messages[i]).mime

\* C1: send_all opens exactly one session for the whole batch and, when no
\* send fails, hands every message to it exactly once, in input order (the
\* i-th send_message call carries the render of the i-th message); send
\* opens one session and sends one message.
C1_OneSessionInOrder ==
    /\ opened <= 1
    /\ pc \notin {"call", "raised"} => opened = 1
    /\ InInputOrder
    /\ pc = "done" =>
          /\ opened = 1
          /\ Len(attempts) = Len(messages)
          /\ \A i \in 1..Len(attempts) : attempts[i].ok
          /\ fn = "send" => Len(attempts) = 1

C1_Witness ==
    /\ pc = "done"
    /\ fn = "send_all"
    /\ Len(attempts) = MaxBatch
    /\ \E i, j \in 1..Len(messages) : messages[i] # messages[j]

C2_State ==
    /\ closed <= opened
    /\ pc \in {"done", "raised"} => closed = opened
    /\ pc = "done" => closed = 1
C2_Step ==
    closed >= 1 => (attempts' = attempts /\ closed' = closed)

\* C2: the session send / send_all opened is closed exactly once on every
\* exit path (all sends succeeded, a send_message failed, a render failed),
\* and nothing is sent once it is closed.
C2_ClosedExactlyOnce == [](C2_State) /\ [][C2_Step]_vars

C2_Witness ==
    /\ pc = "raised"
    /\ exc = "TypeError"
    /\ fn = "send_all"
    /\ Len(attempts) >= 1
    /\ opened = 1
    /\ closed = 1

\* C3: when the transport fails on the k-th message of send_all, the first
\* k-1 messages were sent successfully, the k-th was attempted once, no
\* later message is attempted, and the failure reaches the caller.
C3_FailureAbortsBatch ==
    \A k \in 1..Len(attempts) :
        ~attempts[k].ok =>
            /\ k = Len(attempts)
            /\ \A i \in 1..(k-1) : attempts[i].ok
            /\ InInputOrder
            /\ exc = "SMTPException"
            /\ pc \in {"exit", "raised"}

C3_Witness ==
    /\ fn = "send_all"
    /\ pc = "raised"
    /\ Len(messages) = MaxBatch
    /\ Len(attempts) = 2
    /\ ~attempts[2].ok

(* ---------------------------------------------------------------------- *)
(* Message.__eq__                                                          *)
(* ---------------------------------------------------------------------- *)
InitEq ==
    /\ heap = <<>>
    /\ kwargs = <<>>
    /\ cached_unknown_fields = <<>>
    /\ ret = Ret("none", <<>>, "None", None, {})
    /\ SmtpIdle
    /\ OthersIdle

\* another Message(**headers) is built and held
ConstructMore ==
    /\ Len(heap) < MaxMsgs
    /\ \E h \in {KW_plain, KW_bcc} : \E r \in {Message__init__(h)} :
         /\ heap' = Append(heap, r.self)
         /\ kwargs' = Append(kwargs, h)
         /\ cached_unknown_fields' = r.cached_unknown_fields
         /\ ret' = Ret("Message", h, r.exc, None, r.errors)
    /\ UNCHANGED smtpVars
    /\ UNCHANGED otherVars

\* what a Message is compared with: a held Message, or an object of another
\* class
Others ==
    {[class |-> "Message", ref |-> j, obj |-> heap[j]] : j \in 1..Len(heap)}
    \cup {[class |-> c, ref |-> 0, obj |-> NoMessage] : c \in {"object", "int", "NoneType"}}

\* heap[m] == other
Compare ==
    /\ \E m \in 1..Len(heap), other \in Others :
         LET r == Message__eq__(heap[m], other)
         IN  ret' = Ret("__eq__", [self |-> m, other |-> other], r.exc, r.value, {})
    /\ UNCHANGED <<heap, kwargs, cached_unknown_fields>>
    /\ UNCHANGED smtpVars
    /\ UNCHANGED otherVars

NextEq == ConstructMore \/ AttachText \/ Compare

SpecEq == InitEq /\ [][NextEq]_vars

\* the attachment lists hold the same parts, whatever their order
SamePartsSorted(a, b) ==
    /\ Len(a) = Len(b)
    /\ {a[i].id : i \in 1..Len(a)} = {b[i].id : i \in 1..Len(b)}

\* C10: m1 == m2 never fails, for any number of attachments; it is True iff
\* the headers are equal by value and the attachment lists are equal under a
\* fixed sort order, False otherwise, and False for a non-Message.
C10_EqualityTotal ==
    ret.op = "__eq__" =>
        /\ ret.exc = "None"
        /\ IF ret.arg.other.class = "Message"
           THEN ret.value =
                    (/\ DictEq(heap[ret.arg.self].headers, ret.arg.other.obj.headers)
                     /\ SamePartsSorted(heap[ret.arg.self].attachments,
                                        ret.arg.other.obj.attachments))
           ELSE ret.value = FALSE

(* ---------------------------------------------------------------------- *)
(* Repeated constructions through MESSAGE_HEADERS_SCHEMA                   *)
(* ---------------------------------------------------------------------- *)
K_x_a == <<"x","_","a">>
K_x_b == <<"x","_","b">>
K_X_A == <<"X","_","A">>
V_one == PyStr(<<"1">>)
V_two == PyStr(<<"2">>)

\* a mapping that names no recipient
KW_norecipient == << <<K_date, PyDateTime(1)>>,
                     <<K_from_addresses, PyList(<<A_good>>)>> >>

\* unrecognized keywords: none, one, two, two whose MIME names coincide,
\* and one whose MIME name is that of the field to
UnknownKeywords ==
    { <<>>,
      << <<K_x_a, V_one>> >>,
      << <<K_x_b, V_two>> >>,
      << <<K_x_a, V_one>>, <<K_x_b, V_two>> >>,
      << <<K_x_a, V_one>>, <<K_X_A, V_two>> >>,
      << <<K_TO, PyList(<<>>)>> >> }

PassThroughInputs ==
    {known \o unknown : known \in {KW_plain, KW_bcc, KW_norecipient},
                        unknown \in UnknownKeywords}

PassThroughConstructed == [h \in PassThroughInputs |-> Message__init__(h)]

InitSeq ==
    /\ heap = <<>>
    /\ kwargs = <<>>
    /\ cached_unknown_fields = <<>>
    /\ ret = Ret("none", <<>>, "None", None, {})
    /\ SmtpIdle
    /\ OthersIdle

\* one more Message(**headers) call; a Message that was built is kept
ConstructNext ==
    /\ Len(heap) < MaxMsgs
    /\ \E h \in PassThroughInputs : \E r \in {PassThroughConstructed[h]} :
         /\ heap' = IF r.exc = "None" THEN Append(heap, r.self) ELSE heap
         /\ kwargs' = IF r.exc = "None" THEN Append(kwargs, h) ELSE kwargs
         /\ cached_unknown_fields' = r.cached_unknown_fields
         /\ ret' = Ret("Message", h, r.exc, None, r.errors)
    /\ UNCHANGED smtpVars
    /\ UNCHANGED otherVars

NextSeq == ConstructNext

SpecSeq == InitSeq /\ [][NextSeq]_vars

RecognizedKeywords ==
    {K_date, K_sender, K_reply_to, K_to, K_cc, K_bcc, K_from_addresses}
RecognizedHeaders ==
    {mime_headerize(K_date), mime_headerize(K_sender), mime_headerize(K_reply_to),
     mime_headerize(K_to), mime_headerize(K_cc), mime_headerize(K_bcc),
     mime_headerize(K_from)}
UnknownOf(h) == SelectSeq(h, LAMBDA kv : kv[1] \notin RecognizedKeywords)
KnownOf(h) == SelectSeq(h, LAMBDA kv : kv[1] \in RecognizedKeywords)

\* the Message m holds every unrecognized keyword of its arguments h under
\* its MIME name, unchanged
HoldsOwnUnknown(m, h) ==
    \A i \in 1..Len(h) :
        h[i][1] \notin RecognizedKeywords
            => /\ Has(m.headers, mime_headerize(h[i][1]))
               /\ Get(m.headers, mime_headerize(h[i][1])) = h[i][2]

\* every header of m beyond the recognized ones comes from its arguments h
NoForeignUnknown(m, h) ==
    Keys(m.headers) \subseteq
        RecognizedHeaders \cup {mime_headerize(k) : k \in Keys(UnknownOf(h))}

\* C11: after any sequence of constructions, every Message built holds each
\* unrecognized keyword of its own arguments under mime_headerize(k) with the
\* value unchanged and no pass-through header of an earlier construction;
\* unrecognized keywords never cause a validation error.
C11_PassThroughOwnOnly ==
    /\ \A m \in 1..Len(heap) :
          /\ HoldsOwnUnknown(heap[m], kwargs[m])
          /\ NoForeignUnknown(heap[m], kwargs[m])
    /\ ret.op = "Message" => ret.errors = validate(dump(KnownOf(ret.arg)).data)

(* ---------------------------------------------------------------------- *)
(* address.py: Address objects built and compared                          *)
(* ---------------------------------------------------------------------- *)
MaxAddrs == 2

\* the strings given to Address(): bare emails, "name <email>", "<email>", a
\* bare name, the empty string, "<>", and names with an email lacking "@"
AddressInputs ==
    { <<"a","@","b">>,
      <<"A","@","b">>,
      <<"c","@","d">>,
      <<"N"," ","<","a","@","b",">">>,
      <<"M"," ","<","a","@","b",">">>,
      <<"N"," ","<","c","@","d",">">>,
      <<"<","a","@","b",">">>,
      <<"N">>,
      <<>>,
      <<"<",">">>,
      <<"N"," ","<","b","a","d",">">>,
      <<"N"," ","<",">">> }

InitAddr ==
    /\ heap = <<>>
    /\ kwargs = <<>>
    /\ cached_unknown_fields = <<>>
    /\ ret = Ret("none", <<>>, "None", None, {})
    /\ SmtpIdle
    /\ OthersIdle

\* Address(addr_str): the caller holds the object unless ValueError is raised
NewAddress ==
    /\ Len(addrs) < MaxAddrs
    /\ \E s \in AddressInputs : \E r \in {Address(s)} :
         /\ addrs' = IF r.ok THEN Append(addrs, [name |-> r.name, email |-> r.email])
                     ELSE addrs
         /\ ret' = Ret("Address", s, IF r.ok THEN "None" ELSE "ValueError", None, {})
    /\ UNCHANGED <<heap, kwargs, cached_unknown_fields, threads>>
    /\ UNCHANGED smtpVars

\* what an Address is compared with: a held Address, or a string
AddressOthers ==
    {[class |-> "Address", ref |-> j] : j \in 1..Len(addrs)}
    \cup {[class |-> "str", ref |-> 0]}

\* object.__eq__, which Address inherits (the class defines no __eq__): the
\* two operands are the same object
object__eq__(self, other) == other.class = "Address" /\ other.ref = self

\* addrs[a] == other
AddressCompare ==
    /\ \E a \in 1..Len(addrs), other \in AddressOthers :
         ret' = Ret("Address.__eq__", [self |-> a, other |-> other], "None",
                    object__eq__(a, other), {})
    /\ UNCHANGED <<heap, kwargs, cached_unknown_fields, addrs, threads>>
    /\ UNCHANGED smtpVars

NextAddr == NewAddress \/ AddressCompare

SpecAddr == InitAddr /\ [][NextAddr]_vars

\* C12: Address(s) succeeds iff the email part parsed from s contains "@"; it
\* raises ValueError when name and email part are both empty and when the
\* email part lacks "@" (a bare name, "", "<>"); every Address that exists
\* has an email part containing "@".
C12_AddressNeedsAt ==
    /\ \A a \in 1..Len(addrs) : Contains(addrs[a].email, "@")
    /\ ret.op = "Address" =>
         /\ (ret.exc = "None") = Contains(parseaddr(ret.arg)[2], "@")
         /\ ret.exc \in {"None", "ValueError"}
         /\ ret.arg \in {<<"N">>, <<>>, <<"<",">">>} => ret.exc = "ValueError"
         /\ ret.exc = "None" =>
              /\ Len(addrs) > 0
              /\ addrs[Len(addrs)].name = parseaddr(ret.arg)[1]
              /\ addrs[Len(addrs)].email = parseaddr(ret.arg)[2]

\* a bare name was refused while an Address is held
C12_Witness ==
    /\ ret.op = "Address"
    /\ ret.arg = <<"N">>
    /\ ret.exc = "ValueError"
    /\ Len(addrs) = 1

\* C13: two Address values are equal iff display name and email part both
\* match exactly: distinct objects built from the same string compare equal,
\* and Addresses differing in name or email compare unequal.
C13_EqualByNameAndEmail ==
    (ret.op = "Address.__eq__" /\ ret.arg.other.class = "Address") =>
        ret.value = (/\ addrs[ret.arg.self].name = addrs[ret.arg.other.ref].name
                     /\ addrs[ret.arg.self].email = addrs[ret.arg.other.ref].email)

(* ---------------------------------------------------------------------- *)
(* Concurrent Message constructions on MESSAGE_HEADERS_SCHEMA             *)
(* ---------------------------------------------------------------------- *)
MaxThreads == 2

\* the keyword mappings of the concurrent calls: unrecognized keywords with
\* distinct MIME names, none, and a mapping without recipient
ConcurrentInputs ==
    { KW_plain \o << <<K_x_a, V_one>> >>,
      KW_bcc \o << <<K_x_b, V_two>> >>,
      KW_plain,
      KW_norecipient \o << <<K_x_b, V_two>> >> }

InitConc ==
    /\ heap = <<>>
    /\ kwargs = <<>>
    /\ cached_unknown_fields = <<>>
    /\ ret = Ret("none", <<>>, "None", None, {})
    /\ SmtpIdle
    /\ OthersIdle

\* thread t moves to position p with the local mapping d
Goto(t, p, d) == [threads EXCEPT ![t].pc = p, ![t].data = d]

\* a thread enters Message.__init__(**headers)
Call ==
    /\ Len(threads) < MaxThreads
    /\ \E h \in ConcurrentInputs :
         threads' = Append(threads, [pc |-> "pre_dump1", headers |-> h, data |-> <<>>])
    /\ UNCHANGED <<msgVars, addrs>>
    /\ UNCHANGED smtpVars

\* pre_dump of the first or second dump: the cache of the schema instance
\* is cleared and filled from this thread's keywords
PreDump ==
    /\ \E t \in 1..Len(threads) :
         /\ threads[t].pc \in {"pre_dump1", "pre_dump2"}
         /\ cached_unknown_fields' = cache_unknown_fields(threads[t].headers)
         /\ threads' = Goto(t, IF threads[t].pc = "pre_dump1" THEN "serialize1"
                                ELSE "serialize2", <<>>)
    /\ UNCHANGED <<heap, kwargs, ret, addrs>>
    /\ UNCHANGED smtpVars

\* field serialization into the thread's own mapping
Serialize ==
    /\ \E t \in 1..Len(threads) :
         /\ threads[t].pc \in {"serialize1", "serialize2"}
         /\ threads' = Goto(t, IF threads[t].pc = "serialize1" THEN "post_dump1"
                                ELSE "post_dump2",
                            SerializeFrom(1, threads[t].headers))
    /\ UNCHANGED <<msgVars, addrs>>
    /\ UNCHANGED smtpVars

\* post_dump: whatever the cache of the schema instance holds now is added
PostDump ==
    /\ \E t \in 1..Len(threads) :
         /\ threads[t].pc \in {"post_dump1", "post_dump2"}
         /\ threads' = Goto(t, IF threads[t].pc = "post_dump1" THEN "validate"
                                ELSE "store",
                            dump_unknown_fields(cached_unknown_fields, threads[t].data))
    /\ UNCHANGED <<msgVars, addrs>>
    /\ UNCHANGED smtpVars

\* validate the first dump; ValueError ends the call
Validate ==
    /\ \E t \in 1..Len(threads) : \E validation_result \in {validate(threads[t].data)} :
         /\ threads[t].pc = "validate"
         /\ threads' = Goto(t, IF Cardinality(validation_result) > 0 THEN "raised"
                                ELSE "pre_dump2", <<>>)
         /\ ret' = IF Cardinality(validation_result) > 0
                   THEN Ret("Message", threads[t].headers, "ValueError", None,
                            validation_result)
                   ELSE ret
    /\ UNCHANGED <<heap, kwargs, cached_unknown_fields, addrs>>
    /\ UNCHANGED smtpVars

\* self.headers = dumped_headers; self.attachments = []
Store ==
    /\ \E t \in 1..Len(threads) :
         /\ threads[t].pc = "store"
         /\ heap' = Append(heap, [headers |-> threads[t].data, attachments |-> <<>>])
         /\ kwargs' = Append(kwargs, threads[t].headers)
         /\ ret' = Ret("Message", threads[t].headers, "None", None, {})
         /\ threads' = Goto(t, "done", <<>>)
    /\ UNCHANGED <<cached_unknown_fields, addrs>>
    /\ UNCHANGED smtpVars

NextConc == Call \/ PreDump \/ Serialize \/ PostDump \/ Validate \/ Store

SpecConc == InitConc /\ [][NextConc]_vars

\* C14: when Message constructions with different unrecognized keywords run
\* concurrently, interleaved at the dump steps of the shared schema, every
\* resulting Message holds exactly the pass-through headers of its own
\* arguments: none of another construction's, and none of its own missing.
C14_NoSharedDumpState ==
    \A m \in 1..Len(heap) :
        Keys(heap[m].headers) \ RecognizedHeaders
            = {mime_headerize(k) : k \in Keys(UnknownOf(kwargs[m]))}

====
